---- MODULE Spec2Model ----
(***************************************************************************)
(* A model of the data-freshness core of the trading-view demo: the       *)
(* request dispatcher (APIQueue), the streaming session manager            *)
(* (TokenStreamManager), the error classifier (ApiErrorHandler), the       *)
(* cache store (CacheManager) and the data service facade (TokenService).  *)
(*                                                                         *)
(* Scheduling model: one JavaScript event loop.  An action of this module  *)
(* is one macrotask (a call from the UI, a timer, a network event, the     *)
(* completion of a database request) together with the microtasks it       *)
(* triggers: the code runs without interruption up to its next await on    *)
(* an external event.                                                      *)
(***************************************************************************)
EXTENDS Integers, Sequences, FiniteSets, Bags, TLC

VARIABLES
  \* APIQueue (src/src/services/api-queue.ts)
  queue,            \* this.queue: the ids of the tasks waiting, oldest first
  processing,       \* this.processing
  activeRequests,   \* this.activeRequests
  opState,          \* per operation: "new", "queued", "running", "settled", "done"
  handle,           \* per operation: the promise add returned
  outcome,          \* history: per operation, how the operation itself ended
  waited,           \* history: the operations that add left waiting in the queue
  \* TokenStreamManager (src/src/stream.ts)
  controller,           \* this.controller is not null
  isConnected,          \* this.isConnected
  currentPoolId,        \* this.currentPoolId
  lastDataTime,         \* this.lastDataTime
  reconnectAttempts,    \* this.reconnectAttempts
  isAddonErrorDetected, \* this.isAddonErrorDetected
  addonErrorAttempts,   \* this.addonErrorAttempts
  streamStatus,         \* what updateStreamStatus last showed
  invs,                 \* the startStream calls suspended at an await
  timers,               \* the pending setTimeout callbacks, a bag
  apiConfigured,        \* APP_CONFIG.isConfigured()
  now,                  \* Date.now()
  last,                 \* history: what the last step did
  streak,               \* history: consecutive failed attempts, see NextStreak
  addonFailures,        \* history: addon-classified failures since the last reset
  \* CacheManager (src/src/utils/debug.ts), TokenService (src/src/services/autosync.ts)
  data,                 \* the object stores symbols, tokenCache, historical
  meta,                 \* the object store cacheMetadata
  memoryCache,          \* this.memoryCache
  calls,                \* the cache and facade calls suspended at an await
  nCalls,               \* history: the number of calls made
  clean,                \* history: per entry, the setWithExpiry that wrote it
  lastCall,             \* history: the call that returned last
  \* ApiErrorHandler (src/src/utils/error-handler.ts)
  analysis              \* a failed response and what analyzeError made of it

qvars == <<queue, processing, activeRequests, opState, handle, outcome, waited>>

sfields == <<controller, isConnected, currentPoolId, lastDataTime,
             reconnectAttempts, isAddonErrorDetected, addonErrorAttempts,
             streamStatus, invs, timers, last, streak, addonFailures>>

svars == <<sfields, apiConfigured, now>>

cvars == <<data, meta, memoryCache, calls, nCalls, clean, lastCall>>

evars == <<analysis>>

vars == <<qvars, svars, cvars, evars>>

----------------------------------------------------------------------------
(* Request dispatcher *)

MAX_CONCURRENT_REQUESTS == 5

\* The number of operations the environment passes to add.
MaxOps == 7

Ops == 1..MaxOps

QState == [queue |-> queue, processing |-> processing,
           activeRequests |-> activeRequests, opState |-> opState]

\* A launch that takes the newest waiting task.
MutLaunchNewest(s) ==
  LET task == s.queue[Len(s.queue)] IN
  [s EXCEPT !.queue = SubSeq(@, 1, Len(@) - 1),
            !.activeRequests = @ + 1,
            !.opState[task] = "running"]

\* A launch that forgets to count the operation it starts.
MutLaunchNoCount(s) ==
  LET task == Head(s.queue) IN
  [s EXCEPT !.queue = Tail(s.queue), !.opState[task] = "running"]

\* queue.shift(), activeRequests++ and task(): the operation starts running.
Launch(s) ==
  LET task == Head(s.queue) IN
  [s EXCEPT !.queue = Tail(s.queue),
            !.activeRequests = @ + 1,
            !.opState[task] = "running"]

\* The loop condition of process.
LoopCondition(s) ==
  Len(s.queue) > 0 /\ s.activeRequests < MAX_CONCURRENT_REQUESTS

RECURSIVE DrainLoop(_)
DrainLoop(s) == IF LoopCondition(s) THEN DrainLoop(Launch(s)) ELSE s

\* process(): it has no await, so it runs to its end within the caller's step.
process(s) ==
  IF s.processing \/ s.activeRequests >= MAX_CONCURRENT_REQUESTS
  THEN s
  ELSE [DrainLoop([s EXCEPT !.processing = TRUE]) EXCEPT !.processing = FALSE]

\* A finally callback that keeps the slot.
MutFinallyNoRelease(s) == process(s)

\* The finally callback of a task: release the slot, drain again.
MutFinallyNoDrain(s) == [s EXCEPT !.activeRequests = @ - 1]

OnTaskFinally(s) == process([s EXCEPT !.activeRequests = @ - 1])

SetQueue(s) ==
  /\ queue' = s.queue
  /\ processing' = s.processing
  /\ activeRequests' = s.activeRequests
  /\ opState' = s.opState

\* add(fn): operations are numbered in the order in which they are added.
add(i) ==
  /\ opState[i] = "new"
  /\ \A j \in Ops : j < i => opState[j] # "new"
  /\ LET pushed == [QState EXCEPT !.queue = Append(@, i), !.opState[i] = "queued"]
         after == process(pushed)
     IN /\ SetQueue(after)
        /\ waited' = IF after.opState[i] = "queued" THEN waited \cup {i} ELSE waited
  /\ UNCHANGED <<handle, outcome, svars, cvars, evars>>

\* A wrapper that swallows the operation's error.
MutWrapperResolvesAlways(result) == "resolved"

\* The task wrapper of add: resolve(result) after the await, reject(error) in
\* the catch.
wrapper(result) == IF result = "ok" THEN "resolved" ELSE "rejected"

\* The operation's promise settles and the task wrapper resumes after its
\* await: resolve(result) or reject(error) settles the handle.
Settle(i, result) ==
  /\ opState[i] = "running"
  /\ opState' = [opState EXCEPT ![i] = "settled"]
  /\ handle' = [handle EXCEPT ![i] = wrapper(result)]
  /\ outcome' = [outcome EXCEPT ![i] = result]
  /\ UNCHANGED <<queue, processing, activeRequests, waited, svars, cvars, evars>>

\* The task's promise has settled: .finally() runs.
TaskFinally(i) ==
  /\ opState[i] = "settled"
  /\ SetQueue(OnTaskFinally([QState EXCEPT !.opState[i] = "done"]))
  /\ UNCHANGED <<handle, outcome, waited, svars, cvars, evars>>

InitQueueVars ==
  /\ queue = <<>>
  /\ processing = FALSE
  /\ activeRequests = 0
  /\ opState = [i \in Ops |-> "new"]
  /\ handle = [i \in Ops |-> "pending"]
  /\ outcome = [i \in Ops |-> "none"]
  /\ waited = {}

NextQueue ==
  \/ \E i \in Ops : add(i)
  \/ \E i \in Ops, result \in {"ok", "err"} : Settle(i, result)
  \/ \E i \in Ops : TaskFinally(i)

Running == {i \in Ops : opState[i] = "running"}

\* C1: the operations started and not yet settled never number more than
\* MAX_CONCURRENT_REQUESTS, whatever the adds and the order of settlement.
C1_AtMostMaxInFlight == Cardinality(Running) <= MAX_CONCURRENT_REQUESTS

\* The limit is reached while an operation waits behind it.
C1_Witness ==
  /\ Cardinality(Running) = MAX_CONCURRENT_REQUESTS
  /\ Len(queue) > 0

\* An operation is never un-added, so "every added operation eventually runs
\* to its end" is: from some point on, no added operation is short of it.
AllAddedSettled ==
  \A i \in Ops : opState[i] # "new" => opState[i] = "done" /\ handle[i] # "pending"

\* C7: when every started operation settles, every added operation is
\* eventually started and its handle eventually settles, whether the
\* operations before it resolve or reject: no operation stays in the queue.
C7_NoTaskStranded == <>[]AllAddedSettled

\* An operation that had to wait behind a rejected one has run and settled.
C7_Witness ==
  \E i \in waited :
    /\ opState[i] = "done"
    /\ handle[i] # "pending"
    /\ \E j \in Ops : j < i /\ handle[j] = "rejected"

StartedStates == {"running", "settled", "done"}

\* C14: the handle of an operation settles exactly once and with the
\* operation's own outcome (resolved when it resolved, rejected when it
\* rejected or threw, pending until then), and the operation is invoked
\* exactly once: it waits in the queue once, and neither a settled handle nor
\* a started operation ever goes back.
C14_HandleSettlesOnceWithOwnOutcome ==
  /\ [](\A i \in Ops :
          /\ outcome[i] = "none" => handle[i] = "pending"
          /\ outcome[i] = "ok" => handle[i] = "resolved"
          /\ outcome[i] = "err" => handle[i] = "rejected"
          /\ outcome[i] # "none" <=> opState[i] \in {"settled", "done"}
          /\ Cardinality({k \in 1..Len(queue) : queue[k] = i})
               = (IF opState[i] = "queued" THEN 1 ELSE 0))
  /\ [][\A i \in Ops :
          /\ handle[i] # "pending" => handle'[i] = handle[i]
          /\ opState[i] \in StartedStates => opState'[i] \in StartedStates
          /\ opState[i] \in {"settled", "done"} => opState'[i] # "running"]_vars

\* One handle resolved and another rejected, each as its operation ended.
C14_Witness ==
  \E i, j \in Ops :
    /\ outcome[i] = "ok" /\ handle[i] = "resolved" /\ opState[i] = "done"
    /\ outcome[j] = "err" /\ handle[j] = "rejected" /\ opState[j] = "done"

\* C15: whatever the outcomes, the active count is the number of operations
\* started whose finally has not run, no operation waits while a slot is
\* free, and once every added operation has run to its end the active count
\* is 0 and the queue is empty.
C15_FailureReleasesSlot ==
  /\ activeRequests = Cardinality({i \in Ops : opState[i] \in {"running", "settled"}})
  /\ Len(queue) > 0 => activeRequests = MAX_CONCURRENT_REQUESTS
  /\ (\A i \in Ops : opState[i] \in {"new", "done"})
       => activeRequests = 0 /\ queue = <<>>

\* Every operation was added and has ended, one that waited behind a failed
\* operation included.
C15_Witness ==
  /\ \A i \in Ops : opState[i] = "done"
  /\ activeRequests = 0 /\ queue = <<>>
  /\ \E i \in waited : \E j \in Ops : j < i /\ outcome[j] = "err"

\* C16: operations are started in the order in which they were added (their
\* numbers): a started operation has no earlier operation still waiting, and
\* the queue holds the waiting operations oldest first.
C16_StartedInAdditionOrder ==
  /\ \A a, b \in Ops :
       (a < b /\ opState[b] \in StartedStates) => opState[a] \in StartedStates
  /\ \A k \in 1..(Len(queue) - 1) : queue[k] < queue[k + 1]

\* Two operations waited; both were started although earlier operations
\* ended out of order.
C16_Witness ==
  \E a, b \in waited :
    /\ a < b
    /\ opState[a] \in StartedStates /\ opState[b] \in StartedStates
    /\ \E x, y \in Ops : x < y /\ y < a /\ opState[y] = "done" /\ opState[x] = "running"

----------------------------------------------------------------------------
(* Error classifier *)

Keywords == {"addon", "subscription", "stream", "plan"}

\* analyzeError(status, responseText, url).  The response text is taken as the
\* set of the keywords it contains once lower-cased, the url as whether it
\* contains "/stream" ("/tokens/stream" contains it too).
analyzeError(status, words, urlHasStream) ==
  IF status = 401
  THEN IF urlHasStream /\ words \cap {"addon", "subscription", "stream", "plan"} # {}
       THEN [errorType |-> "addon", isAddonError |-> TRUE]
       ELSE [errorType |-> "auth", isAddonError |-> FALSE]
  ELSE IF status = 403
  THEN IF urlHasStream \/ words \cap {"addon", "subscription", "plan"} # {}
       THEN [errorType |-> "addon", isAddonError |-> TRUE]
       ELSE [errorType |-> "auth", isAddonError |-> FALSE]
  ELSE IF status = 429 THEN [errorType |-> "network", isAddonError |-> FALSE]
  ELSE IF status >= 500 THEN [errorType |-> "network", isAddonError |-> FALSE]
  ELSE IF status >= 400 THEN [errorType |-> "network", isAddonError |-> FALSE]
  ELSE [errorType |-> "unknown", isAddonError |-> FALSE]

\* Texts are sequences of characters.
addon == <<"a", "d", "d", "o", "n">>
subscription == <<"s", "u", "b", "s", "c", "r", "i", "p", "t", "i", "o", "n">>
stream == <<"s", "t", "r", "e", "a", "m">>
plan == <<"p", "l", "a", "n">>
KeywordText == [addon |-> addon, subscription |-> subscription,
                stream |-> stream, plan |-> plan]

UpperCase == <<"A", "B", "C", "D", "E", "I", "L", "M", "N", "O", "P", "R", "S",
               "T", "U">>
LowerCase == <<"a", "b", "c", "d", "e", "i", "l", "m", "n", "o", "p", "r", "s",
               "t", "u">>

\* A lower-casing that leaves the text as it is.
MutNoLowerCase(text) == text

\* String.prototype.toLowerCase, on the letters the texts use.
toLowerCase(text) ==
  [i \in 1..Len(text) |->
     IF \E k \in 1..Len(UpperCase) : UpperCase[k] = text[i]
     THEN LowerCase[CHOOSE k \in 1..Len(UpperCase) : UpperCase[k] = text[i]]
     ELSE text[i]]

\* String.prototype.includes.
includes(text, part) ==
  \E i \in 0..(Len(text) - Len(part)) : SubSeq(text, i + 1, i + Len(part)) = part

\* The keywords analyzeError finds in the response text.
keywordsOf(responseText) ==
  {w \in Keywords : includes(toLowerCase(responseText), KeywordText[w])}

\* url.includes('/stream') || url.includes('/tokens/stream')
urlIsStream(url) ==
  \/ includes(url, <<"/">> \o stream)
  \/ includes(url, <<"/", "t", "o", "k", "e", "n", "s", "/">> \o stream)

\* The failed responses analysed: each text with the keywords it mentions,
\* each url with whether it is a streaming endpoint.
ErrorStatuses == {400, 401, 403, 404, 429, 500, 503}
ResponseTexts ==
  { [chars |-> <<>>, mentions |-> {}],
    [chars |-> <<"b", "a", "d", " ", "t", "o", "k", "e", "n">>, mentions |-> {}],
    [chars |-> <<"A", "D", "D", "O", "N">>, mentions |-> {"addon"}],
    [chars |-> <<"n", "o", " ">> \o addon \o <<"s">>, mentions |-> {"addon"}],
    [chars |-> <<"N", "o", " ", "S", "u", "b">> \o SubSeq(subscription, 4, 12),
     mentions |-> {"subscription"}],
    [chars |-> <<"u", "p", "S", "t", "r", "e", "a", "m">>, mentions |-> {"stream"}],
    [chars |-> <<"P", "L", "a", "n">>, mentions |-> {"plan"}],
    [chars |-> stream \o <<" ">> \o plan, mentions |-> {"stream", "plan"}] }
RequestUrls ==
  { [chars |-> <<"/", "s", "y", "m", "b", "o", "l", "_", "i", "n", "f", "o">>,
     streaming |-> FALSE],
    [chars |-> <<"/", "t", "o", "k", "e", "n", "s", "/", "c", "u", "r", "r", "e",
                 "n", "t">>, streaming |-> FALSE],
    [chars |-> <<"/", "t", "o", "k", "e", "n", "s", "/">> \o stream
                 \o <<"?", "p", "=", "A">>, streaming |-> TRUE],
    [chars |-> <<"/", "v", "1", "/">> \o stream, streaming |-> TRUE] }

NotAnalysed == [errorType |-> "none", isAddonError |-> FALSE]

\* ApiErrorHandler.analyzeError(status, responseText, url) is called for the
\* failed response.
AnalyzeError ==
  /\ analysis.errorDetails = NotAnalysed
  /\ analysis' = [analysis EXCEPT !.errorDetails =
                    analyzeError(analysis.status,
                                 keywordsOf(analysis.responseText.chars),
                                 urlIsStream(analysis.url.chars))]
  /\ UNCHANGED <<qvars, svars, cvars>>

InitClassifierVars ==
  analysis = [status |-> 401,
              responseText |-> [chars |-> <<>>, mentions |-> {}],
              url |-> [chars |-> <<"/", "v", "1", "/">> \o stream, streaming |-> TRUE],
              errorDetails |-> NotAnalysed]

\* Any failed response may be the one analysed.
InitResponses ==
  analysis \in [status : ErrorStatuses, responseText : ResponseTexts,
                url : RequestUrls, errorDetails : {NotAnalysed}]

\* C25: analyzeError agrees with the decision table.  401: addon exactly when
\* the url is a streaming endpoint and the text mentions addon,
\* subscription, stream or plan, in whatever case, else auth; 403: addon
\* exactly when the url is a streaming endpoint or the text mentions addon,
\* subscription or plan, else auth; every other status from 400 on: network.
\* isAddonError is true exactly for addon.
C25_ClassifierFollowsTable ==
  LET status == analysis.status
      mentions == analysis.responseText.mentions
      streaming == analysis.url.streaming
      expected ==
        IF status = 401
        THEN IF streaming /\ mentions \cap {"addon", "subscription", "stream", "plan"} # {}
             THEN "addon" ELSE "auth"
        ELSE IF status = 403
        THEN IF streaming \/ mentions \cap {"addon", "subscription", "plan"} # {}
             THEN "addon" ELSE "auth"
        ELSE "network"
  IN analysis.errorDetails # NotAnalysed =>
       /\ analysis.errorDetails.errorType = expected
       /\ analysis.errorDetails.isAddonError = (expected = "addon")

\* A 401 of a streaming endpoint whose text mentions the subscription in
\* capitals was classified addon.
C25_Witness ==
  /\ analysis.status = 401
  /\ analysis.url.streaming
  /\ analysis.responseText.mentions = {"subscription"}
  /\ analysis.responseText.chars # toLowerCase(analysis.responseText.chars)
  /\ analysis.errorDetails.isAddonError

----------------------------------------------------------------------------
(* Streaming session manager *)

maxReconnectAttempts == 5
HealthCheckIntervalMs == 30000
StaleAfterMs == 90000
HealthReconnectDelayMs == 5000
BackoffBaseMs == 1000
BackoffCapMs == 30000
AddonAttemptLimit == 2

\* Date.now() when the manager is constructed, and how far the clock runs.
StartTime == 1000000
MaxTicks == 4
\* How many setTimeout callbacks may be pending at once.
MaxTimers == 2
\* Where the history counter streak stops counting.
MaxStreak == 6

Keys == {"A", "B"}
NoPool == "null"
\* The statuses the streaming endpoint answers with.
Statuses == {200, 401, 403, 404, 429, 500}
\* What one chunk of the body holds: a health-check record, a trading record
\* of a pool, a line that is not JSON, or no complete line.
ChunkKinds == {"health", "garbage", "partial"} \cup Keys
\* The response texts of a refused request, by the keywords they contain.
Bodies == {{}, {"addon"}, {"stream"}, {"subscription", "plan"}}

Min(a, b) == IF a <= b THEN a ELSE b

RetryTimer(poolId, delay) == [kind |-> "retry", poolId |-> poolId, delay |-> delay]
HealthTimer == [kind |-> "health", poolId |-> NoPool, delay |-> HealthReconnectDelayMs]

\* The manager's fields, with what the step under way has done so far:
\* aborting (the calls whose await was rejected by abort(), resumed when the
\* synchronous code has ended), issued (a streaming request was sent),
\* failed / delay (a call failed; the delay of the retry its catch scheduled),
\* abortRetries (retries scheduled by the catch of an aborted call),
\* received / forwarded (the records handleStreamData was given and those it
\* passed to updateStreamWidget), settled (how the promises of the
\* startStream calls that ended were settled).
SState ==
  [controller |-> controller, isConnected |-> isConnected,
   currentPoolId |-> currentPoolId, lastDataTime |-> lastDataTime,
   reconnectAttempts |-> reconnectAttempts,
   isAddonErrorDetected |-> isAddonErrorDetected,
   addonErrorAttempts |-> addonErrorAttempts,
   streamStatus |-> streamStatus, invs |-> invs, timers |-> timers,
   aborting |-> {}, issued |-> FALSE, failed |-> FALSE, delay |-> 0,
   abortRetries |-> 0, received |-> {}, forwarded |-> {}, settled |-> {}]

updateStreamStatus(m, status) == [m EXCEPT !.streamStatus = status]

setTimeout(m, timer) == [m EXCEPT !.timers = @ (+) SetToBag({timer})]

clearTimer(m, timer) == [m EXCEPT !.timers = @ (-) SetToBag({timer})]

BackoffDelay(attempts) == Min(BackoffBaseMs * 2^attempts, BackoffCapMs)

\* startStream returns: its promise is resolved.
returns(m) == [m EXCEPT !.settled = @ \cup {"resolved"}]

\* A catch block that throws the error on: the promise is rejected.
MutCatchRethrows(m) == [m EXCEPT !.settled = @ \cup {"rejected"}]

\* The catch block of startStream has run to its end: it throws nothing, and
\* startStream returns.
afterCatch(m) == returns(m)

\* The catch block of startStream, run by the call for poolId.
catchBlock(m, poolId, byAbort) ==
  LET m1 == updateStreamStatus([m EXCEPT !.isConnected = FALSE], "error")
      m2 == IF byAbort THEN m1 ELSE [m1 EXCEPT !.failed = TRUE]
  IN afterCatch(
       IF m2.reconnectAttempts < maxReconnectAttempts
       THEN LET delay == BackoffDelay(m2.reconnectAttempts)
                m3 == setTimeout([m2 EXCEPT !.reconnectAttempts = @ + 1],
                                 RetryTimer(poolId, delay))
            IN IF byAbort THEN [m3 EXCEPT !.abortRetries = @ + 1]
                          ELSE [m3 EXCEPT !.delay = delay]
       ELSE updateStreamStatus(m2, "error"))

\* A stop that leaves the connection of the controller alone.
MutStopNoAbort(m) ==
  [m EXCEPT !.controller = FALSE,
            !.isConnected = FALSE,
            !.currentPoolId = NoPool,
            !.lastDataTime = 0,
            !.reconnectAttempts = 0]

\* controller.abort() rejects the await of every call that holds the signal.
stopStream(m) ==
  LET aborted == IF m.controller THEN {r \in m.invs : r.cur} ELSE {}
  IN [m EXCEPT !.controller = FALSE,
               !.invs = @ \ aborted,
               !.aborting = @ \cup aborted,
               !.isConnected = FALSE,
               !.currentPoolId = NoPool,
               !.lastDataTime = 0,
               !.reconnectAttempts = 0]

\* The guard of startStream on the addon flag.
MutIgnoreAddonFlag(m) == FALSE

AddonBlocked(m) == m.isAddonErrorDetected

\* A guard that never finds the session connected.
MutNeverAlreadyConnected(m, poolId) == FALSE

\* The guard of startStream on a session connected for the same pool.
AlreadyConnected(m, poolId) == m.isConnected /\ m.currentPoolId = poolId

\* startStream(poolId) up to its first await.
startStream(m, poolId, configured) ==
  IF AlreadyConnected(m, poolId)
  THEN returns(m)
  ELSE LET m1 == [stopStream(m) EXCEPT !.currentPoolId = poolId]
       IN IF AddonBlocked(m1)
          THEN returns(updateStreamStatus(m1, "addon-error"))
          ELSE LET m2 == [updateStreamStatus(m1, "connecting")
                            EXCEPT !.controller = TRUE,
                                   !.invs = {[r EXCEPT !.cur = FALSE] : r \in @}]
               IN IF ~configured
                  THEN catchBlock(m2, poolId, FALSE)
                  ELSE [m2 EXCEPT !.issued = TRUE,
                                  !.invs = @ \cup {[pc |-> "fetch", poolId |-> poolId,
                                                    cur |-> TRUE, status |-> 0]}]

\* The calls whose await abort() rejected resume in their catch block.
RECURSIVE RunAborted(_)
RunAborted(m) ==
  IF m.aborting = {}
  THEN m
  ELSE LET r == CHOOSE r \in m.aborting : TRUE
       IN RunAborted(catchBlock([m EXCEPT !.aborting = @ \ {r}], r.poolId, TRUE))

\* The non-success branch of startStream, once the response text is read.
onErrorResponse(m, r, words) ==
  LET errorDetails == analyzeError(r.status, words, TRUE)
  IN IF errorDetails.isAddonError
     THEN LET m1 == [m EXCEPT !.addonErrorAttempts = @ + 1]
          IN IF m1.addonErrorAttempts >= AddonAttemptLimit
             THEN returns(updateStreamStatus(
                            [m1 EXCEPT !.isAddonErrorDetected = TRUE], "addon-error"))
             ELSE catchBlock(updateStreamStatus(m1, "addon-error"), r.poolId, FALSE)
     ELSE catchBlock(m, r.poolId, FALSE)

\* A test that takes every trading record for the current pool's.
MutAnyPoolMatches(m, rec) == TRUE

\* handleStreamData: streamData.pool_id === this.currentPoolId.
PoolMatches(m, rec) == rec = m.currentPoolId

\* handleStreamData for one parsed record: a health check, or a trading
\* record, passed to updateStreamWidget if it is of the current pool.
handleStreamData(m, rec, t) ==
  LET m1 == [m EXCEPT !.lastDataTime = t, !.received = @ \cup {rec}]
  IN IF rec = "health" THEN updateStreamStatus(m1, "connected")
     ELSE IF PoolMatches(m1, rec) THEN [m1 EXCEPT !.forwarded = @ \cup {rec}]
     ELSE m1

\* A watchdog that never finds the session silent.
MutNeverStale(m, t) == FALSE

\* checkConnectionHealth.
IsStale(m, t) == m.isConnected /\ t - m.lastDataTime > StaleAfterMs

checkConnectionHealth(m) ==
  LET m1 == updateStreamStatus([m EXCEPT !.isConnected = FALSE], "error")
  IN IF m1.currentPoolId # NoPool THEN setTimeout(m1, HealthTimer) ELSE m1

\* reconnect().
reconnect(m, configured) ==
  IF m.currentPoolId # NoPool
  THEN startStream([m EXCEPT !.reconnectAttempts = 0], m.currentPoolId, configured)
  ELSE m

\* History.  streak counts the consecutive failed connection attempts since
\* the last start, stop, reconnect or successful connection; it is -1 (void)
\* once the catch of a torn-down call has run in between or an attempt was
\* refused as auth or addon, so that a positive count stands for a run of
\* retryable failures that only the retry timer continued.
NextStreak(base, m, category) ==
  IF m.abortRetries > 0 \/ category \in {"auth", "addon"} THEN -1
  ELSE IF base = -1 THEN -1
  ELSE IF m.failed THEN Min(base + 1, MaxStreak)
  ELSE base

Last(op, m, category) ==
  [op |-> op, issued |-> m.issued, delay |-> m.delay,
   abortRetries |-> m.abortRetries, category |-> category,
   failed |-> m.failed, received |-> m.received, forwarded |-> m.forwarded,
   settled |-> m.settled]

SetStream(m) ==
  /\ BagCardinality(m.timers) <= MaxTimers
  /\ controller' = m.controller
  /\ isConnected' = m.isConnected
  /\ currentPoolId' = m.currentPoolId
  /\ lastDataTime' = m.lastDataTime
  /\ reconnectAttempts' = m.reconnectAttempts
  /\ isAddonErrorDetected' = m.isAddonErrorDetected
  /\ addonErrorAttempts' = m.addonErrorAttempts
  /\ streamStatus' = m.streamStatus
  /\ invs' = m.invs
  /\ timers' = m.timers

\* A step of the manager: m is the state its code leaves, the aborted calls
\* having run their catch.
StreamStep(op, m0, base, category) ==
  LET m == RunAborted(m0)
  IN /\ SetStream(m)
     /\ last' = Last(op, m, category)
     /\ streak' = NextStreak(base, m, category)

\* startStream(poolId), called by the application.
StartStream(poolId) ==
  /\ StreamStep("start", startStream(SState, poolId, apiConfigured), 0, "none")
  /\ UNCHANGED <<apiConfigured, now, addonFailures, qvars, cvars, evars>>

\* stopStream(), called by the application.
StopStream ==
  /\ StreamStep("stop", stopStream(SState), 0, "none")
  /\ UNCHANGED <<apiConfigured, now, addonFailures, qvars, cvars, evars>>

\* reconnect(), called by the retry button.
Reconnect ==
  /\ StreamStep("reconnect", reconnect(SState, apiConfigured), 0, "none")
  /\ UNCHANGED <<apiConfigured, now, addonFailures, qvars, cvars, evars>>

\* A reset that clears the flag only.
MutResetKeepsAttempts(m) == [m EXCEPT !.isAddonErrorDetected = FALSE]

resetAddonErrorState(m) ==
  [m EXCEPT !.isAddonErrorDetected = FALSE, !.addonErrorAttempts = 0]

\* resetAddonErrorState(), called when the credentials are updated.
ResetAddonErrorState ==
  /\ isAddonErrorDetected' = resetAddonErrorState(SState).isAddonErrorDetected
  /\ addonErrorAttempts' = resetAddonErrorState(SState).addonErrorAttempts
  /\ addonFailures' = 0
  /\ last' = Last("reset", SState, "none")
  /\ UNCHANGED <<controller, isConnected, currentPoolId, lastDataTime,
                 reconnectAttempts, streamStatus, invs, timers, apiConfigured, now,
                 streak, qvars, cvars, evars>>

\* A retry callback that does not look at the current pool.
MutRetryUnguarded(m, poolId) == TRUE

\* The guard of the retry callback: if (this.currentPoolId === poolId).
StillCurrent(m, poolId) == m.currentPoolId = poolId

\* A delayed reconnect that does not look at the current pool.
MutHealthUnguarded(m) == TRUE

\* The guard of the watchdog's delayed reconnect: if (this.currentPoolId).
HasCurrentPool(m) == m.currentPoolId # NoPool

\* The callback of a retry timer set by the catch block.
RetryTimerFires(timer) ==
  /\ BagIn(timer, timers)
  /\ timer.kind = "retry"
  /\ LET m == clearTimer(SState, timer)
     IN StreamStep("retryTimer",
                   IF StillCurrent(m, timer.poolId)
                   THEN startStream(m, timer.poolId, apiConfigured) ELSE m,
                   streak, "none")
  /\ UNCHANGED <<apiConfigured, now, addonFailures, qvars, cvars, evars>>

\* The callback of the timer set by checkConnectionHealth.
HealthTimerFires ==
  /\ BagIn(HealthTimer, timers)
  /\ LET m == clearTimer(SState, HealthTimer)
     IN StreamStep("healthTimer",
                   IF HasCurrentPool(m)
                   THEN startStream(m, m.currentPoolId, apiConfigured) ELSE m,
                   streak, "none")
  /\ UNCHANGED <<apiConfigured, now, addonFailures, qvars, cvars, evars>>

\* The interval callback, when it finds the session silent.
CheckConnectionHealth ==
  /\ IsStale(SState, now)
  /\ StreamStep("watchdog", checkConnectionHealth(SState), streak, "none")
  /\ UNCHANGED <<apiConfigured, now, addonFailures, qvars, cvars, evars>>

\* The API key is stored or removed: isConfigured() changes.
SetConfigured ==
  /\ apiConfigured' = ~apiConfigured
  /\ last' = Last("env", SState, "none")
  /\ UNCHANGED <<controller, isConnected, currentPoolId, lastDataTime,
                 reconnectAttempts, isAddonErrorDetected, addonErrorAttempts,
                 streamStatus, invs, timers, now, streak, addonFailures, qvars, cvars, evars>>

\* 30 seconds pass.
Tick ==
  /\ now < StartTime + MaxTicks * HealthCheckIntervalMs
  /\ now' = now + HealthCheckIntervalMs
  /\ last' = Last("env", SState, "none")
  /\ UNCHANGED <<controller, isConnected, currentPoolId, lastDataTime,
                 reconnectAttempts, isAddonErrorDetected, addonErrorAttempts,
                 streamStatus, invs, timers, apiConfigured, streak, addonFailures,
                 qvars, cvars, evars>>

Without(m, r) == [m EXCEPT !.invs = @ \ {r}]

\* fetch rejects: the network failed.
FetchRejects(r) ==
  /\ r \in invs /\ r.pc = "fetch"
  /\ StreamStep("fetchRejects", catchBlock(Without(SState, r), r.poolId, FALSE),
                streak, "none")
  /\ UNCHANGED <<apiConfigured, now, addonFailures, qvars, cvars, evars>>

\* fetch resolves with a response; hasBody is whether response.body is set.
FetchResponds(r, status, hasBody) ==
  /\ r \in invs /\ r.pc = "fetch"
  /\ IF status = 200
     THEN LET m1 == updateStreamStatus(
                      [Without(SState, r) EXCEPT !.isConnected = TRUE,
                                                 !.reconnectAttempts = 0,
                                                 !.lastDataTime = now],
                      "connected")
          IN StreamStep("connected",
                        IF hasBody
                        THEN [m1 EXCEPT !.invs = @ \cup {[r EXCEPT !.pc = "read"]}]
                        ELSE catchBlock(m1, r.poolId, FALSE),
                        0, "none")
     ELSE StreamStep("response",
                     [Without(SState, r) EXCEPT
                        !.invs = @ \cup {[r EXCEPT !.pc = "text", !.status = status]}],
                     streak, "none")
  /\ UNCHANGED <<apiConfigured, now, addonFailures, qvars, cvars, evars>>

\* response.text() resolves: the failure is classified.
TextArrives(r, words) ==
  /\ r \in invs /\ r.pc = "text"
  /\ LET errorDetails == analyzeError(r.status, words, TRUE)
     IN /\ StreamStep("refused", onErrorResponse(Without(SState, r), r, words),
                      streak, errorDetails.errorType)
        /\ addonFailures' = IF errorDetails.isAddonError
                            THEN Min(addonFailures + 1, AddonAttemptLimit + 1)
                            ELSE addonFailures
  /\ UNCHANGED <<apiConfigured, now, qvars, cvars, evars>>

\* response.text() rejects: the network failed while the body was read.
TextRejects(r) ==
  /\ r \in invs /\ r.pc = "text"
  /\ StreamStep("textRejects", catchBlock(Without(SState, r), r.poolId, FALSE),
                streak, "none")
  /\ UNCHANGED <<apiConfigured, now, addonFailures, qvars, cvars, evars>>

\* reader.read() resolves with a chunk; then the loop tests isConnected.
Chunk(r, rec) ==
  /\ r \in invs /\ r.pc = "read"
  /\ LET m1 == IF rec \in {"garbage", "partial"}
               THEN SState ELSE handleStreamData(SState, rec, now)
     IN StreamStep("chunk",
                   IF m1.isConnected THEN m1 ELSE returns(Without(m1, r)),
                   streak, "none")
  /\ UNCHANGED <<apiConfigured, now, addonFailures, qvars, cvars, evars>>

\* reader.read() resolves with done: processStream and startStream return.
StreamDone(r) ==
  /\ r \in invs /\ r.pc = "read"
  /\ StreamStep("done", returns(Without(SState, r)), streak, "none")
  /\ UNCHANGED <<apiConfigured, now, addonFailures, qvars, cvars, evars>>

\* reader.read() rejects with a network error: the catch of processStream,
\* then the catch of startStream.
ReadRejects(r) ==
  /\ r \in invs /\ r.pc = "read"
  /\ StreamStep("readRejects",
                catchBlock(updateStreamStatus(
                             [Without(SState, r) EXCEPT !.isConnected = FALSE],
                             "error"),
                           r.poolId, FALSE),
                streak, "none")
  /\ UNCHANGED <<apiConfigured, now, addonFailures, qvars, cvars, evars>>

InitStreamVars ==
  /\ controller = FALSE
  /\ isConnected = FALSE
  /\ currentPoolId = NoPool
  /\ lastDataTime = 0
  /\ reconnectAttempts = 0
  /\ isAddonErrorDetected = FALSE
  /\ addonErrorAttempts = 0
  /\ streamStatus = "none"
  /\ invs = {}
  /\ timers = EmptyBag
  /\ apiConfigured = TRUE
  /\ now = StartTime
  /\ last = [op |-> "init", issued |-> FALSE, delay |-> 0, abortRetries |-> 0,
             category |-> "none", failed |-> FALSE, received |-> {},
             forwarded |-> {}, settled |-> {}]
  /\ streak = 0
  /\ addonFailures = 0

NextStream ==
  \/ \E k \in Keys : StartStream(k)
  \/ StopStream
  \/ Reconnect
  \/ ResetAddonErrorState
  \/ SetConfigured
  \/ \E timer \in BagToSet(timers) : RetryTimerFires(timer)
  \/ HealthTimerFires
  \/ CheckConnectionHealth
  \/ Tick
  \/ \E r \in invs : FetchRejects(r)
  \/ \E r \in invs, status \in Statuses, hasBody \in BOOLEAN :
       FetchResponds(r, status, hasBody)
  \/ \E r \in invs, words \in Bodies : TextArrives(r, words)
  \/ \E r \in invs : TextRejects(r)
  \/ \E r \in invs, rec \in ChunkKinds : Chunk(r, rec)
  \/ \E r \in invs : StreamDone(r)
  \/ \E r \in invs : ReadRejects(r)

RetryPending == \E timer \in BagToSet(timers) : timer.kind = "retry"

\* Some pending retry callback is called.
RetryFires == \E timer \in BagToSet(timers) : RetryTimerFires(timer)

\* The session against an endpoint that accepts the request or cannot be
\* reached: start, stop, the configuration, the clock, the timers and the
\* body of an accepted response.
NextWatch ==
  \/ \E k \in Keys : StartStream(k)
  \/ StopStream
  \/ SetConfigured
  \/ RetryFires
  \/ HealthTimerFires
  \/ CheckConnectionHealth
  \/ Tick
  \/ \E r \in invs : FetchRejects(r)
  \/ \E r \in invs, hasBody \in BOOLEAN : FetchResponds(r, 200, hasBody)
  \/ \E r \in invs, rec \in ChunkKinds : Chunk(r, rec)
  \/ \E r \in invs : StreamDone(r)
  \/ \E r \in invs : ReadRejects(r)

\* C2 (as claimed): once the first attempt and 5 automatic reconnects have
\* all failed with retryable errors, with no stop, start or reconnect in
\* between, no retry is pending and the session shows error.
C2_NoRetryAfterFiveAttempts ==
  streak >= maxReconnectAttempts + 1 => ~RetryPending /\ streamStatus = "error"

\* C3 (as claimed): the retry scheduled after the k-th consecutive failure
\* (k = 1..5) of a run that only the retry timer continued is delayed
\* min(1000 * 2^(k-1), 30000) ms: 1000, 2000, 4000, 8000, 16000.
C3_BackoffDoubles ==
  (last.delay > 0 /\ streak \in 1..maxReconnectAttempts)
    => last.delay = Min(1000 * 2^(streak - 1), 30000)

\* C4: after two addon-classified failures of the streaming request, a
\* start sends no request and leaves the status at addon-error.
C4_BlockedStartSendsNothing ==
  (last.op = "start" /\ addonFailures >= 2)
    => ~last.issued /\ streamStatus = "addon-error"

\* A start was refused after two addon failures.
C4_Witness ==
  /\ last.op = "start"
  /\ addonFailures >= 2
  /\ ~last.issued
  /\ streamStatus = "addon-error"
  /\ currentPoolId \in Keys

\* C5 (as claimed): the watchdog's trip leaves the session in error, not
\* connected and with its one delayed reconnect pending; and when that
\* reconnect runs, tearing down the stale connection schedules no retry.
C5_WatchdogSchedulesOneReconnect ==
  /\ last.op = "watchdog"
       => ~isConnected /\ streamStatus = "error" /\ BagIn(HealthTimer, timers)
  /\ last.op = "healthTimer" => last.abortRetries = 0

\* C10 (as claimed): a failure classified auth schedules no retry.
C10_AuthFailureNotRetried ==
  (last.op = "refused" /\ last.category = "auth")
    => last.delay = 0 /\ ~RetryPending

\* C11 (as claimed): when the read loop of the session ends because the
\* transport signals the end of the stream, the session is no longer
\* connected, shows error, and a retry is scheduled.
C11_StreamEndLeavesConnected ==
  last.op = "done" => ~isConnected /\ streamStatus = "error" /\ RetryPending

\* C17: while the addon flag is set no request is in flight and no step, by
\* whatever path, issues one; only resetAddonErrorState clears the flag, and
\* it leaves addonErrorAttempts at 0; with the flag clear, a start (of a
\* configured client not already connected for that pool) issues a request.
C17_NoRequestWhileAddonBlocked ==
  /\ [](isAddonErrorDetected => ~isConnected /\ invs = {})
  /\ [][/\ isAddonErrorDetected => ~last'.issued
        /\ (isAddonErrorDetected /\ ~isAddonErrorDetected') => last'.op = "reset"
        /\ last'.op = "reset" => ~isAddonErrorDetected' /\ addonErrorAttempts' = 0
        /\ (/\ ~isAddonErrorDetected
            /\ apiConfigured
            /\ last'.op = "start"
            /\ ~(isConnected /\ currentPoolId' = currentPoolId))
             => last'.issued /\ invs' # {}]_vars

\* resetAddonErrorState has just lifted the block of a session that a start
\* had left at addon-error.
C17_Witness ==
  /\ last.op = "reset"
  /\ streamStatus = "addon-error"
  /\ ~isAddonErrorDetected
  /\ addonErrorAttempts = 0
  /\ addonFailures = 0
  /\ currentPoolId \in Keys

\* C18 (as claimed): the step of a retry timer, an automatic retry of the
\* same pool, never lowers reconnectAttempts.
C18_AutomaticRetryKeepsAttempts ==
  [][last'.op = "retryTimer" => reconnectAttempts' >= reconnectAttempts]_vars

\* C19: a start for the pool the session is connected for issues no request,
\* aborts nothing and leaves the manager's fields as they were.
C19_StartWhileConnectedIsNoOp ==
  [][(isConnected /\ last'.op = "start" /\ currentPoolId' = currentPoolId)
       => /\ ~last'.issued
          /\ last'.abortRetries = 0
          /\ UNCHANGED <<controller, isConnected, currentPoolId, lastDataTime,
                         reconnectAttempts, streamStatus, invs, timers>>]_vars

\* A start has left the session connected with its open connection.
C19_Witness ==
  /\ last.op = "start"
  /\ isConnected
  /\ ~last.issued
  /\ \E r \in invs : r.pc = "read" /\ r.poolId = currentPoolId

\* C20 (as claimed): after a stop, the handlers of the aborted connection
\* having run, the session is not connected, has no current pool and
\* reconnectAttempts is 0.
C20_StopResetsSession ==
  last.op = "stop" => ~isConnected /\ currentPoolId = NoPool /\ reconnectAttempts = 0

\* C26: a stop leaves the session without a pool, with no connection and no
\* request sent; and from a session without a pool no step other than a
\* start of the application (a retry timer, the watchdog's delayed
\* reconnect, reconnect(), a response, time) sends a request, opens a
\* connection or gives the session a pool.
C26_StoppedSessionStaysStopped ==
  /\ [](last.op = "stop" => currentPoolId = NoPool /\ invs = {} /\ ~last.issued)
  /\ [][(currentPoolId = NoPool /\ last'.op # "start")
         => ~last'.issued /\ invs' = {} /\ currentPoolId' = NoPool
            /\ ~isConnected']_vars

\* The watchdog's delayed reconnect fired on a stopped session and sent
\* nothing, a retry timer still pending.
C26_Witness ==
  /\ last.op = "healthTimer"
  /\ currentPoolId = NoPool
  /\ ~last.issued
  /\ RetryPending

\* C27: the callback of a retry timer whose pool is not the current pool
\* sends no request and leaves the session, its connection included, as it
\* was.
C27_SupersededRetryDoesNothing ==
  [][last'.op = "retryTimer" =>
       \A timer \in BagToSet(timers) :
         (/\ timer.kind = "retry"
          /\ timer.poolId # currentPoolId
          /\ timers' = timers (-) SetToBag({timer}))
           => /\ ~last'.issued
              /\ last'.abortRetries = 0
              /\ UNCHANGED <<controller, isConnected, currentPoolId, lastDataTime,
                             reconnectAttempts, streamStatus, invs>>]_vars

\* A retry timer fired while the request of the current pool was in flight
\* and sent nothing, though the client was configured and not blocked: the
\* timer was the one of a pool since replaced.
C27_Witness ==
  /\ last.op = "retryTimer"
  /\ ~last.issued
  /\ ~isConnected
  /\ apiConfigured
  /\ ~isAddonErrorDetected
  /\ \E r \in invs : r.pc = "fetch" /\ r.poolId = currentPoolId

\* C33 (as claimed): the addon block holds for the key whose requests were
\* refused only; right after key A has been blocked, a start for another key
\* shows connecting and sends a request (the API being configured).
C33_AddonBlockIsPerKey ==
  [][(/\ last.op = "refused" /\ last.category = "addon"
      /\ isAddonErrorDetected
      /\ apiConfigured
      /\ last'.op = "start"
      /\ currentPoolId' # currentPoolId)
       => last'.issued /\ streamStatus' = "connecting"]_vars

\* The session is connected for key and has had no record since the manager
\* was constructed.
ConnectedSilent(key) ==
  isConnected /\ currentPoolId = key /\ lastDataTime = StartTime

\* A connection request for key was sent in the last step.
Requested(key) == last.issued /\ currentPoolId = key

\* What releases the watchdog from its duty towards key: a record arrived,
\* the session was stopped or started for another key, or the manager is
\* addon-blocked.
Released(key) ==
  \/ last.received # {}
  \/ currentPoolId # key
  \/ isAddonErrorDetected

\* C36 (as claimed): a session connected for a key on which no record
\* arrives any more is sooner or later followed by a new connection request
\* for that key, unless it is stopped, started for another key or
\* addon-blocked, the timers firing.
C36_SilentSessionReconnects ==
  \A key \in Keys : ConnectedSilent(key) ~> (Requested(key) \/ Released(key))

\* C36 (amended): the same, for as long as the API stays configured.
C36_SilentSessionReconnectsIfConfigured ==
  \A key \in Keys :
    ConnectedSilent(key) ~> (Requested(key) \/ Released(key) \/ ~apiConfigured)

\* The delayed reconnect of the watchdog sent a request for the pool of the
\* silent session.
C36_Witness ==
  /\ last.op = "healthTimer"
  /\ last.issued
  /\ currentPoolId \in Keys
  /\ now - StartTime > StaleAfterMs

\* C37: the promise of startStream is never rejected.  Whenever a call ends,
\* it resolves; a step in which a call failed (no configuration, the network,
\* a refused request, a read error) or was aborted ends in its catch block,
\* with the session not connected and the status error, and the second
\* addon refusal ends with the status addon-error and the block set.
C37_StartStreamNeverRejects ==
  /\ last.settled \subseteq {"resolved"}
  /\ (last.failed \/ last.abortRetries > 0) =>
       /\ last.settled = {"resolved"}
       /\ ~isConnected
       /\ streamStatus = "error"
  /\ (last.op = "refused" /\ ~last.failed) =>
       /\ last.settled = {"resolved"}
       /\ last.category = "addon"
       /\ isAddonErrorDetected
       /\ streamStatus = "addon-error"

\* A start without configuration that also aborted the connection of the
\* call before it: both calls ended in their catch and resolved.
C37_Witness ==
  /\ last.op = "start"
  /\ last.failed
  /\ last.abortRetries > 0
  /\ last.settled = {"resolved"}

\* C38: every record passed to the widget is a trading record of the
\* current pool; a health-check record is never passed on, and a trading
\* record of another pool is not passed on and changes nothing of the
\* session but lastDataTime.
C38_OnlyCurrentPoolForwarded ==
  /\ [](/\ last.forwarded \subseteq Keys \cap {currentPoolId}
        /\ last.forwarded \subseteq last.received)
  /\ [][\A rec \in last'.received :
          (rec \in Keys /\ rec # currentPoolId) =>
            /\ last'.forwarded = {}
            /\ lastDataTime' = now
            /\ UNCHANGED <<controller, isConnected, currentPoolId,
                           reconnectAttempts, isAddonErrorDetected,
                           addonErrorAttempts, streamStatus, timers>>]_vars

\* A trading record of another pool arrived on the open connection and was
\* dropped.
C38_Witness ==
  /\ last.op = "chunk"
  /\ isConnected
  /\ currentPoolId \in Keys
  /\ last.received \cap (Keys \ {currentPoolId}) # {}
  /\ last.forwarded = {}

\* C28: at most one connection exists; it is the one of the current
\* controller and of the current pool.
C28_AtMostOneConnection ==
  /\ Cardinality(invs) <= 1
  /\ \A r \in invs : r.cur /\ controller /\ r.poolId = currentPoolId

\* A start has replaced a connection: the old one was aborted, the new
\* request is the only one.
C28_Witness ==
  /\ last.op = "start"
  /\ last.issued
  /\ last.abortRetries > 0
  /\ Cardinality(invs) = 1

----------------------------------------------------------------------------
(* Cache store (CacheManager) and data service facade (TokenService) *)

SYMBOLS_EXPIRY == 1800000
TOKEN_DATA_EXPIRY == 600000
HISTORICAL_DATA_EXPIRY == 300000

\* The clock of the cache runs in steps of half the symbols TTL.
CacheTickMs == SYMBOLS_EXPIRY \div 2
MaxCacheTicks == 3
\* The number of calls the application makes on the cache and the facade.
MaxCalls == 2
\* The number of those calls that may be suspended at an await at once.
MaxInFlight == 2

DataStores == {"symbols", "tokenCache", "historical"}
\* The stores, keys, values and TTLs the callers pass.
CallStores == {"symbols", "historical"}
Groups == {"Aggregate"}
Values == {"v1", "v2"}
Ttls == {CacheTickMs, SYMBOLS_EXPIRY}
MemKeys == {"policy1asset1"}
Slots == CallStores \X Groups

\* A value that may be undefined: the empty set or a singleton.
The(s) == CHOOSE x \in s : TRUE

\* An object store is a function from the keys it holds to their values.
EmptyStore == [x \in {} |-> x]
Put(f, k, v) == [x \in DOMAIN f \cup {k} |-> IF x = k THEN v ELSE f[x]]
Delete(f, k) == [x \in DOMAIN f \ {k} |-> f[x]]
Lookup(f, k) == IF k \in DOMAIN f THEN {f[k]} ELSE {}

\* `${store}_${key}`
MetaKey(store, key) == store \o "_" \o key

\* db.getAllKeys returns the keys in ascending order.
MetaKeyOrder ==
  <<MetaKey("historical", "Aggregate"), MetaKey("symbols", "Aggregate")>>

CState == [data |-> data, meta |-> meta, memoryCache |-> memoryCache,
           clean |-> clean]

SetCache(cs) ==
  /\ data' = cs.data
  /\ meta' = cs.meta
  /\ memoryCache' = cs.memoryCache
  /\ clean' = cs.clean

\* History: another write or clear touched these entries.
Touch(cs, slots) ==
  [cs EXCEPT !.clean = [s \in Slots |-> IF s \in slots THEN {} ELSE @[s]]]

\* History: the completed setWithExpiry that wrote the entry, if nothing
\* else has written or cleared the entry since that call began.
Basis(cs, store, key) == {r \in cs.clean[<<store, key>>] : r.done}

\* A metadata record that forgets the ttl.
MutMetadataNoTtl(store, key, ttl, t) ==
  [timestamp |-> t, expiry |-> t, key |-> key, store |-> store]

\* The record setWithExpiry writes to cacheMetadata.
Metadata(store, key, ttl, t) ==
  [timestamp |-> t, expiry |-> t + ttl, key |-> key, store |-> store]

\* setWithExpiry: db.put(store, value, key).
swePutData(cs, c) ==
  [cs EXCEPT !.data[c.store] = Put(@, c.key, c.value),
             !.clean[<<c.store, c.key>>] =
               {[id |-> c.id, by |-> c.op, value |-> c.value, ttl |-> c.ttl,
                 outbound |-> c.outbound, metaAt |-> 0, done |-> FALSE]}]

\* setWithExpiry: db.put('cacheMetadata', {...}, `${store}_${key}`) at time t.
swePutMeta(cs, c, t) ==
  [cs EXCEPT !.meta = Put(@, MetaKey(c.store, c.key),
                          Metadata(c.store, c.key, c.ttl, t)),
             !.clean[<<c.store, c.key>>] =
               {[r EXCEPT !.metaAt = t] : r \in {x \in @ : x.id = c.id}}]

\* setWithExpiry returns.
sweDone(cs, c) ==
  [cs EXCEPT !.clean[<<c.store, c.key>>] =
     {IF r.id = c.id THEN [r EXCEPT !.done = TRUE] ELSE r : r \in @}]

\* An expiry test that counts the instant of expiry as expired.
MutExpiredAtExpiry(metadata, t) ==
  IF metadata = {} THEN TRUE ELSE t >= The(metadata).expiry

\* isExpired, once the metadata record has been read: !metadata, or
\* Date.now() > metadata.expiry.
isExpired(metadata, t) ==
  IF metadata = {} THEN TRUE ELSE t > The(metadata).expiry

\* A facade that never trusts the cache.
MutNeverFresh(expired) == FALSE

\* getSymbols: if (!(await isExpired('symbols', group))).
CacheFresh(expired) == ~expired

\* setMemory(key, value, expiry) at time t.
setMemory(cs, key, value, expiry, t) ==
  [cs EXCEPT !.memoryCache = Put(@, key, [data |-> value, expiry |-> t + expiry])]

\* A getMemory that does not look at the expiry.
MutGetMemoryIgnoresExpiry(cs, key, t) ==
  LET cached == Lookup(cs.memoryCache, key) IN
  IF cached = {} THEN [cache |-> cs, result |-> {}]
  ELSE [cache |-> cs, result |-> {The(cached).data}]

\* getMemory(key) at time t: the cache after the call and what it returns.
getMemory(cs, key, t) ==
  LET cached == Lookup(cs.memoryCache, key) IN
  IF cached = {} THEN [cache |-> cs, result |-> {}]
  ELSE IF t > The(cached).expiry
       THEN [cache |-> [cs EXCEPT !.memoryCache = Delete(@, key)], result |-> {}]
       ELSE [cache |-> cs, result |-> {The(cached).data}]

\* clearMemoryExpired() at time t.
clearMemoryExpired(cs, t) ==
  [cs EXCEPT !.memoryCache =
     [k \in {x \in DOMAIN @ : ~(t > @[x].expiry)} |-> @[k]]]

\* A call of the application, suspended at an await.
Call(op, store, key, value, ttl) ==
  [id |-> nCalls + 1, op |-> op, pc |-> "start", store |-> store, key |-> key,
   value |-> value, ttl |-> ttl, seenMeta |-> {}, seenData |-> {},
   basis |-> {}, checkedAt |-> 0, outbound |-> 0, configured |-> TRUE,
   pending |-> <<>>, cleared |-> 0, token |-> "", task |-> 0, ahead |-> {},
   aheadMeta |-> {}]

\* History: no call returned in this step.
NoCall ==
  [op |-> "none", status |-> "resolved", bool |-> FALSE, value |-> {},
   basis |-> {}, checkedAt |-> 0, outbound |-> 0, configured |-> TRUE,
   cleared |-> 0, fetchFailed |-> FALSE, key |-> "", store |-> "",
   ttl |-> 0, wrote |-> "", ahead |-> {}]

\* The call goes on to its next await.
Replace(c0, c1) ==
  /\ calls' = (calls \ {c0}) \cup {c1}
  /\ lastCall' = NoCall

\* History: how the call ended, and whether a fetch of it had just failed.
Returned(c1, status, bool, value, fetchFailed) ==
  [op |-> c1.op, status |-> status, bool |-> bool,
   value |-> value, basis |-> c1.basis,
   checkedAt |-> c1.checkedAt, outbound |-> c1.outbound,
   configured |-> c1.configured, cleared |-> c1.cleared,
   fetchFailed |-> fetchFailed, key |-> c1.key, store |-> c1.store,
   ttl |-> c1.ttl, wrote |-> c1.value, ahead |-> c1.ahead]

\* The call returns (status resolved) or throws (status rejected).
Finish(c0, c1, status, bool, value) ==
  /\ calls' = calls \ {c0}
  /\ lastCall' = Returned(c1, status, bool, value, FALSE)

\* The call ends on the failure of its fetch, with no value.
FinishFailed(c0, c1, status) ==
  /\ calls' = calls \ {c0}
  /\ lastCall' = Returned(c1, status, FALSE, {}, TRUE)

Begin(c) ==
  /\ nCalls < MaxCalls
  /\ Cardinality(calls) < MaxInFlight
  /\ nCalls' = nCalls + 1
  /\ calls' = calls \cup {c}
  /\ lastCall' = NoCall

Instant(c, bool, value) ==
  /\ nCalls < MaxCalls
  /\ nCalls' = nCalls + 1
  /\ Finish(c, c, "resolved", bool, value)

others == <<qvars, svars, evars>>

\* setWithExpiry issues db.put(store, value, key): the call waits for the
\* put; ahead is history, the data puts on the same store that were issued
\* before it and have not completed.
issuePut(c) ==
  [c EXCEPT !.pc = "putData",
            !.ahead = {[id |-> x.id, key |-> x.key, value |-> x.value, ttl |-> x.ttl] :
                         x \in {y \in calls : y.pc = "putData" /\ y.store = c.store}}]

\* Puts that complete in any order.
MutAnyCompletionOrder(c) == TRUE

\* When its data put has completed the call issues the put of the metadata
\* record; aheadMeta is the calls whose metadata put is pending then.
issueMetaPut(c) ==
  [c EXCEPT !.pc = "putMeta",
            !.aheadMeta = {x.id : x \in {y \in calls : y.pc = "putMeta"}}]

\* Read-write transactions on one object store run in the order they were
\* created: a put completes after the puts issued before it on its store,
\* which for a metadata put is the one store of the metadata records.
InCreationOrder(c) ==
  \A x \in calls :
    x.pc = c.pc =>
      x.id \notin (IF c.pc = "putData" THEN {a.id : a \in c.ahead} ELSE c.aheadMeta)

\* setWithExpiry(store, key, value, expiry): up to the await of the data put.
SetWithExpiry(store, key, value, ttl) ==
  LET c == issuePut(Call("setWithExpiry", store, key, value, ttl))
  IN /\ Begin(c)
     /\ SetCache(swePutData(CState, c))
     /\ UNCHANGED others

\* set(store, key, value): up to the await of the put.
Set(store, key, value) ==
  LET c == [Call("set", store, key, value, 0) EXCEPT !.pc = "put"]
  IN /\ Begin(c)
     /\ SetCache(Touch([CState EXCEPT !.data[store] = Put(@, key, value)],
                       {<<store, key>>}))
     /\ UNCHANGED others

\* isExpired(store, key): up to the await of the metadata read.
IsExpired(store, key) ==
  /\ Begin([Call("isExpired", store, key, "", 0) EXCEPT
              !.pc = "getMeta",
              !.seenMeta = Lookup(meta, MetaKey(store, key)),
              !.basis = Basis(CState, store, key)])
  /\ UNCHANGED <<data, meta, memoryCache, clean, others>>

\* get(store, key): up to the await of the read.
Get(store, key) ==
  /\ Begin([Call("get", store, key, "", 0) EXCEPT
              !.pc = "getData",
              !.seenData = Lookup(data[store], key),
              !.basis = Basis(CState, store, key)])
  /\ UNCHANGED <<data, meta, memoryCache, clean, others>>

\* getSymbols(group): up to the await of isExpired's metadata read.
GetSymbols(group) ==
  /\ Begin([Call("getSymbols", "symbols", group, "", SYMBOLS_EXPIRY) EXCEPT
              !.pc = "getMeta",
              !.seenMeta = Lookup(meta, MetaKey("symbols", group)),
              !.basis = Basis(CState, "symbols", group)])
  /\ UNCHANGED <<data, meta, memoryCache, clean, others>>

\* History: the stores as a clearing call found them, kept when no other call
\* is under way.
Snapshot ==
  IF calls = {}
  THEN {[id |-> nCalls + 1, at |-> now, data |-> data, meta |-> meta]}
  ELSE {}

\* clearAll(): up to the await of db.clear('symbols').
ClearAll ==
  /\ Begin([Call("clearAll", "", "", "", 0) EXCEPT !.pc = "clear.symbols",
                                                   !.basis = Snapshot])
  /\ SetCache(Touch([CState EXCEPT !.data["symbols"] = EmptyStore],
                    {s \in Slots : s[1] = "symbols"}))
  /\ UNCHANGED others

\* clearExpired(): up to the await of db.getAllKeys('cacheMetadata').
ClearExpired ==
  /\ Begin([Call("clearExpired", "", "", "", 0) EXCEPT
              !.pc = "expired.keys",
              !.basis = Snapshot,
              !.pending = SelectSeq(MetaKeyOrder, LAMBDA k : k \in DOMAIN meta)])
  /\ UNCHANGED <<data, meta, memoryCache, clean, others>>

\* setMemory(key, value, expiry): it has no await.
SetMemory(key, value, expiry) ==
  /\ Instant(Call("setMemory", "", key, value, expiry), FALSE, {})
  /\ SetCache(setMemory(CState, key, value, expiry, now))
  /\ UNCHANGED others

\* getMemory(key): it has no await.
GetMemory(key) ==
  LET r == getMemory(CState, key, now)
  IN /\ Instant(Call("getMemory", "", key, "", 0), FALSE, r.result)
     /\ SetCache(r.cache)
     /\ UNCHANGED others

\* clearMemoryExpired(): it has no await.
ClearMemoryExpired ==
  /\ Instant(Call("clearMemoryExpired", "", "", "", 0), FALSE, {})
  /\ SetCache(clearMemoryExpired(CState, now))
  /\ UNCHANGED others

\* getSymbolInfo(group) -> fetchData: it throws before the request when the
\* API is not configured, else the request goes out.
StartFetch(c0, c1) ==
  IF apiConfigured
  THEN Replace(c0, [c1 EXCEPT !.outbound = @ + 1, !.pc = "fetch"])
  ELSE FinishFailed(c0, [c1 EXCEPT !.configured = FALSE], "rejected")

\* The metadata read of isExpired has completed: isExpired returns, and
\* getSymbols goes on to get('symbols', group) or to the fetch.
MetaGetCompletes(c) ==
  /\ c.pc = "getMeta"
  /\ LET expired == isExpired(c.seenMeta, now)
         c1 == [c EXCEPT !.checkedAt = now]
     IN IF c.op = "isExpired"
        THEN Finish(c, c1, "resolved", expired, {})
        ELSE IF CacheFresh(expired)
             THEN Replace(c, [c1 EXCEPT
                    !.pc = "getData",
                    !.seenData = Lookup(data[c.store], c.key),
                    !.basis = @ \cap Basis(CState, c.store, c.key)])
             ELSE StartFetch(c, c1)
  /\ UNCHANGED <<data, meta, memoryCache, clean, nCalls, others>>

\* A test that takes whatever get returned for cached data.
MutAbsentIsCached(cached) == TRUE

\* getSymbols: if (cached).
IsCached(cached) == cached # {}

\* The read of get has completed: get returns, and getSymbols returns the
\* cached value if there is one, else goes on to the fetch.
DataGetCompletes(c) ==
  /\ c.pc = "getData"
  /\ IF c.op = "get" \/ IsCached(c.seenData)
     THEN Finish(c, c, "resolved", FALSE, c.seenData)
     ELSE StartFetch(c, c)
  /\ UNCHANGED <<data, meta, memoryCache, clean, nCalls, others>>

\* The read of get fails (the database cannot be opened or read): the await
\* throws, and get has no catch.
DataGetFails(c) ==
  /\ c.op = "get"
  /\ c.pc = "getData"
  /\ Finish(c, c, "rejected", FALSE, {})
  /\ UNCHANGED <<data, meta, memoryCache, clean, nCalls, others>>

\* The request of getSymbolInfo fails: getSymbols rejects.
FetchFails(c) ==
  /\ c.pc = "fetch"
  /\ FinishFailed(c, c, "rejected")
  /\ UNCHANGED <<data, meta, memoryCache, clean, nCalls, others>>

\* The request of getSymbolInfo succeeds: getSymbols calls setWithExpiry.
FetchSucceeds(c, symbolsData) ==
  /\ c.pc = "fetch"
  /\ LET c1 == issuePut([c EXCEPT !.value = symbolsData])
     IN /\ SetCache(swePutData(CState, c1))
        /\ Replace(c, c1)
  /\ UNCHANGED <<nCalls, others>>

\* The data put of setWithExpiry has completed: the metadata put follows.
DataPutCompletes(c) ==
  /\ c.pc = "putData"
  /\ InCreationOrder(c)
  /\ SetCache(swePutMeta(CState, c, now))
  /\ Replace(c, issueMetaPut(c))
  /\ UNCHANGED <<nCalls, others>>

\* The metadata put of setWithExpiry has completed: setWithExpiry returns,
\* getSymbols returns the data it fetched, and updateChart goes on to the
\* chart.
MetaPutCompletes(c) ==
  /\ c.pc = "putMeta"
  /\ InCreationOrder(c)
  /\ SetCache(sweDone(CState, c))
  /\ IF c.op = "updateChart"
     THEN Replace(c, [c EXCEPT !.pc = "chart"])
     ELSE Finish(c, c, "resolved", FALSE,
                 IF c.op = "getSymbols" THEN {c.value} ELSE {})
  /\ UNCHANGED <<nCalls, others>>

\* The put of set has completed.
PutCompletes(c) ==
  /\ c.pc = "put"
  /\ Finish(c, c, "resolved", FALSE, {})
  /\ UNCHANGED <<data, meta, memoryCache, clean, nCalls, others>>

\* A clearAll that forgets the metadata store.
MutClearAllKeepsMetadata(c) ==
  /\ c.op = "clearAll"
  /\ CASE c.pc = "clear.symbols" ->
            /\ SetCache([CState EXCEPT !.data["tokenCache"] = EmptyStore])
            /\ Replace(c, [c EXCEPT !.pc = "clear.tokenCache"])
       [] c.pc = "clear.tokenCache" ->
            /\ SetCache(Touch([CState EXCEPT !.data["historical"] = EmptyStore],
                              {s \in Slots : s[1] = "historical"}))
            /\ Replace(c, [c EXCEPT !.pc = "clear.historical"])
       [] c.pc = "clear.historical" ->
            /\ SetCache(Touch(CState, Slots))
            /\ Replace(c, [c EXCEPT !.pc = "clear.cacheMetadata"])
       [] c.pc = "clear.cacheMetadata" ->
            /\ SetCache([CState EXCEPT !.memoryCache = EmptyStore])
            /\ Finish(c, c, "resolved", FALSE, {})
  /\ UNCHANGED <<nCalls, others>>

\* clearAll: a clear has completed, the next one follows; the memory cache
\* is cleared last.
ClearCompletes(c) ==
  /\ c.op = "clearAll"
  /\ CASE c.pc = "clear.symbols" ->
            /\ SetCache([CState EXCEPT !.data["tokenCache"] = EmptyStore])
            /\ Replace(c, [c EXCEPT !.pc = "clear.tokenCache"])
       [] c.pc = "clear.tokenCache" ->
            /\ SetCache(Touch([CState EXCEPT !.data["historical"] = EmptyStore],
                              {s \in Slots : s[1] = "historical"}))
            /\ Replace(c, [c EXCEPT !.pc = "clear.historical"])
       [] c.pc = "clear.historical" ->
            /\ SetCache(Touch([CState EXCEPT !.meta = EmptyStore], Slots))
            /\ Replace(c, [c EXCEPT !.pc = "clear.cacheMetadata"])
       [] c.pc = "clear.cacheMetadata" ->
            /\ SetCache([CState EXCEPT !.memoryCache = EmptyStore])
            /\ Finish(c, c, "resolved", FALSE, {})
  /\ UNCHANGED <<nCalls, others>>

\* clearExpired: the head of its loop, with the keys still to visit.
ExpiredLoop(c0, c1) ==
  IF c1.pending = <<>>
  THEN Finish(c0, c1, "resolved", FALSE, {})
  ELSE Replace(c0, [c1 EXCEPT !.pc = "expired.get",
                              !.seenMeta = Lookup(meta, Head(c1.pending))])

\* clearExpired: getAllKeys has completed.
KeysArrive(c) ==
  /\ c.pc = "expired.keys"
  /\ ExpiredLoop(c, c)
  /\ UNCHANGED <<data, meta, memoryCache, clean, nCalls, others>>

\* A sweep that takes every record for expired.
MutSweepEverything(metadata, t) == metadata # {}

\* The test of clearExpired: metadata && Date.now() > metadata.expiry.
pastExpiry(metadata, t) == metadata # {} /\ t > The(metadata).expiry

\* clearExpired: the metadata record of the key has been read; if it has
\* expired its data entry is deleted.
ExpiredMetaArrives(c) ==
  /\ c.pc = "expired.get"
  /\ IF pastExpiry(c.seenMeta, now)
     THEN LET metadata == The(c.seenMeta) IN
          /\ SetCache(Touch([CState EXCEPT !.data[metadata.store] =
                                             Delete(@, metadata.key)],
                            {<<metadata.store, metadata.key>>}))
          /\ Replace(c, [c EXCEPT !.pc = "expired.deleteData"])
     ELSE /\ ExpiredLoop(c, [c EXCEPT !.pending = Tail(@)])
          /\ UNCHANGED <<data, meta, memoryCache, clean>>
  /\ UNCHANGED <<nCalls, others>>

\* clearExpired: the data entry has been deleted, its metadata record follows.
ExpiredDataDeleted(c) ==
  /\ c.pc = "expired.deleteData"
  /\ LET key == Head(c.pending) IN
     SetCache(Touch([CState EXCEPT !.meta = Delete(@, key)],
                    {s \in Slots : MetaKey(s[1], s[2]) = key}))
  /\ Replace(c, [c EXCEPT !.pc = "expired.deleteMeta"])
  /\ UNCHANGED <<nCalls, others>>

\* clearExpired: the metadata record has been deleted; the next key.
ExpiredMetaDeleted(c) ==
  /\ c.pc = "expired.deleteMeta"
  /\ ExpiredLoop(c, [c EXCEPT !.cleared = @ + 1, !.pending = Tail(@)])
  /\ UNCHANGED <<data, meta, memoryCache, clean, nCalls, others>>

\* A task that caches the failure as a null value.
MutTokenTaskCachesNull(cs, key, fetched, t) ==
  setMemory(cs, key, IF fetched = {} THEN "null" ELSE The(fetched),
            TOKEN_DATA_EXPIRY, t)

\* The task getCurrentTokenData passes to the dispatcher, after its fetch:
\* setMemory with the data fetched, or the catch (fetched is empty), which
\* returns null.
tokenTask(cs, key, fetched, t) ==
  IF fetched = {} THEN cs
  ELSE setMemory(cs, key, The(fetched), TOKEN_DATA_EXPIRY, t)

\* The operation number the dispatcher of the facade gives its next task.
NextOp == 1 + Cardinality({i \in Ops : opState[i] # "new"})

\* The task of getCurrentTokenData returns (it never throws): the wrapper
\* resolves the handle and the finally callback releases the slot.
TaskReturns(s, i) ==
  /\ SetQueue(OnTaskFinally([s EXCEPT !.opState[i] = "done"]))
  /\ handle' = [handle EXCEPT ![i] = wrapper("ok")]
  /\ outcome' = [outcome EXCEPT ![i] = "ok"]
  /\ UNCHANGED waited

\* getCurrentTokenData(c.token) run by the call c: getMemory, and on a miss
\* apiQueue.add(task); the task starts at once while a slot is free, and its
\* fetch throws before the request when the API is not configured.
GetTokenData(c0, c) ==
  LET r == getMemory(CState, c.token, now)
      i == NextOp
      pushed == [QState EXCEPT !.queue = Append(@, i), !.opState[i] = "queued"]
      started == process(pushed)
  IN IF r.result # {}
     THEN /\ SetCache(r.cache)
          /\ Finish(c0, c, "resolved", FALSE, r.result)
          /\ UNCHANGED qvars
     ELSE /\ i \in Ops
          /\ started.opState[i] = "running"
          /\ IF apiConfigured
             THEN /\ SetCache(r.cache)
                  /\ SetQueue(started)
                  /\ UNCHANGED <<handle, outcome, waited>>
                  /\ Replace(c0, [c EXCEPT !.pc = "fetchToken", !.task = i,
                                           !.outbound = @ + 1])
             ELSE /\ SetCache(tokenTask(r.cache, c.token, {}, now))
                  /\ TaskReturns(started, i)
                  /\ FinishFailed(c0, [c EXCEPT !.configured = FALSE], "resolved")

\* getCurrentTokenData(policyId, assetName), called by the application.
GetCurrentTokenData(key) ==
  /\ nCalls < MaxCalls
  /\ Cardinality(calls) < MaxInFlight
  /\ nCalls' = nCalls + 1
  /\ LET c == [Call("getCurrentTokenData", "", "", "", TOKEN_DATA_EXPIRY)
                EXCEPT !.token = key]
     IN GetTokenData(c, c)
  /\ UNCHANGED <<svars, evars>>

\* The request of fetchCurrentTokenData fails: the catch of the task returns
\* null, which getCurrentTokenData returns.
TokenFetchFails(c) ==
  /\ c.pc = "fetchToken"
  /\ SetCache(tokenTask(CState, c.token, {}, now))
  /\ TaskReturns(QState, c.task)
  /\ FinishFailed(c, c, "resolved")
  /\ UNCHANGED <<nCalls, svars, evars>>

\* The request of fetchCurrentTokenData succeeds: setMemory, return data.
TokenFetchSucceeds(c, tokenData) ==
  /\ c.pc = "fetchToken"
  /\ SetCache(tokenTask(CState, c.token, {tokenData}, now))
  /\ TaskReturns(QState, c.task)
  /\ Finish(c, c, "resolved", FALSE, {tokenData})
  /\ UNCHANGED <<nCalls, svars, evars>>

\* updateChart() for the selected token: up to the await of
\* get('historical', cacheKey).
UpdateChart(key, token) ==
  /\ Begin([Call("updateChart", "historical", key, "", HISTORICAL_DATA_EXPIRY)
             EXCEPT !.pc = "hist.get",
                    !.token = token,
                    !.seenData = Lookup(data["historical"], key)])
  /\ UNCHANGED <<data, meta, memoryCache, clean, others>>

\* updateChart: fetchHistoricalData -> fetchData; its failure is caught by
\* the catch of updateChart, which logs it.
StartHistoricalFetch(c0, c1) ==
  IF apiConfigured
  THEN Replace(c0, [c1 EXCEPT !.outbound = @ + 1, !.pc = "hist.fetch"])
  ELSE FinishFailed(c0, [c1 EXCEPT !.configured = FALSE], "resolved")

\* updateChart: the read of 'historical' has completed; with data in hand
\* isExpired is asked, else the data is fetched.
HistoricalGetCompletes(c) ==
  /\ c.pc = "hist.get"
  /\ IF c.seenData # {}
     THEN Replace(c, [c EXCEPT !.pc = "hist.meta",
                              !.seenMeta = Lookup(meta, MetaKey(c.store, c.key))])
     ELSE StartHistoricalFetch(c, c)
  /\ UNCHANGED <<data, meta, memoryCache, clean, nCalls, others>>

\* updateChart: isExpired has its metadata record; the cached data is used
\* unless it has expired.
HistoricalMetaCompletes(c) ==
  /\ c.pc = "hist.meta"
  /\ IF isExpired(c.seenMeta, now)
     THEN StartHistoricalFetch(c, [c EXCEPT !.checkedAt = now])
     ELSE Replace(c, [c EXCEPT !.checkedAt = now, !.pc = "chart",
                              !.value = The(c.seenData)])
  /\ UNCHANGED <<data, meta, memoryCache, clean, nCalls, others>>

\* updateChart: the request of fetchHistoricalData fails.
HistoricalFetchFails(c) ==
  /\ c.pc = "hist.fetch"
  /\ FinishFailed(c, c, "resolved")
  /\ UNCHANGED <<data, meta, memoryCache, clean, nCalls, others>>

\* updateChart: the request succeeds, setWithExpiry('historical', ...) follows.
HistoricalFetchSucceeds(c, historicalData) ==
  /\ c.pc = "hist.fetch"
  /\ LET c1 == issuePut([c EXCEPT !.value = historicalData])
     IN /\ SetCache(swePutData(CState, c1))
        /\ Replace(c, c1)
  /\ UNCHANGED <<nCalls, others>>

\* updateChart: chartManager.updateChart has returned; getCurrentTokenData
\* for the selected token follows, then the metadata panel.
ChartUpdated(c) ==
  /\ c.pc = "chart"
  /\ GetTokenData(c, c)
  /\ UNCHANGED <<nCalls, svars, evars>>

\* Time passes.
CacheTick ==
  /\ now < StartTime + MaxCacheTicks * CacheTickMs
  /\ now' = now + CacheTickMs
  /\ lastCall' = NoCall
  /\ UNCHANGED <<data, meta, memoryCache, calls, nCalls, clean, qvars, sfields,
                 apiConfigured, evars>>

InitCacheVars ==
  /\ data = [s \in DataStores |-> EmptyStore]
  /\ meta = EmptyStore
  /\ memoryCache = EmptyStore
  /\ calls = {}
  /\ nCalls = 0
  /\ clean = [s \in Slots |-> {}]
  /\ lastCall = NoCall

NextCache ==
  \/ \E store \in CallStores, key \in Groups, value \in Values, ttl \in Ttls :
       SetWithExpiry(store, key, value, ttl)
  \/ \E store \in CallStores, key \in Groups, value \in Values :
       Set(store, key, value)
  \/ \E store \in CallStores, key \in Groups : IsExpired(store, key)
  \/ \E store \in CallStores, key \in Groups : Get(store, key)
  \/ \E group \in Groups : GetSymbols(group)
  \/ ClearAll
  \/ ClearExpired
  \/ \E key \in MemKeys, value \in Values : SetMemory(key, value, TOKEN_DATA_EXPIRY)
  \/ \E key \in MemKeys : GetMemory(key)
  \/ ClearMemoryExpired
  \/ \E c \in calls : MetaGetCompletes(c)
  \/ \E c \in calls : DataGetCompletes(c)
  \/ \E c \in calls : FetchFails(c)
  \/ \E c \in calls, symbolsData \in Values : FetchSucceeds(c, symbolsData)
  \/ \E c \in calls : DataPutCompletes(c)
  \/ \E c \in calls : MetaPutCompletes(c)
  \/ \E c \in calls : PutCompletes(c)
  \/ \E c \in calls : ClearCompletes(c)
  \/ \E c \in calls : KeysArrive(c)
  \/ \E c \in calls : ExpiredMetaArrives(c)
  \/ \E c \in calls : ExpiredDataDeleted(c)
  \/ \E c \in calls : ExpiredMetaDeleted(c)
  \/ CacheTick
  \/ SetConfigured

\* The database outlives the page: the durable stores may hold entries that
\* setWithExpiry wrote in an earlier session, here just over a tick before
\* the start, so that an entry with the short ttl has expired at the start
\* and one with the long ttl expires a tick later.
PersistedAt == StartTime - CacheTickMs - 1
PersistedValue == "v0"
SlotOrder == <<<<"historical", "Aggregate">>, <<"symbols", "Aggregate">>>>

RECURSIVE Persist(_, _, _)
Persist(cs, ttlOf, i) ==
  IF i > Len(SlotOrder) THEN cs
  ELSE LET store == SlotOrder[i][1]
           key == SlotOrder[i][2]
       IN Persist(IF ttlOf[SlotOrder[i]] = 0 THEN cs
                  ELSE [cs EXCEPT
                          !.data[store] = Put(@, key, PersistedValue),
                          !.meta = Put(@, MetaKey(store, key),
                                       Metadata(store, key, ttlOf[SlotOrder[i]],
                                                PersistedAt))],
                  ttlOf, i + 1)

InitPersistedVars ==
  /\ \E ttlOf \in [Slots -> {0} \cup Ttls] :
       LET cs == Persist([data |-> [s \in DataStores |-> EmptyStore],
                          meta |-> EmptyStore], ttlOf, 1)
       IN data = cs.data /\ meta = cs.meta
  /\ memoryCache = EmptyStore
  /\ calls = {}
  /\ nCalls = 0
  /\ clean = [s \in Slots |-> {}]
  /\ lastCall = NoCall

TokenKeys == {"policy1asset1", "policy2asset2"}
MemoryTtls == {TOKEN_DATA_EXPIRY, CacheTickMs}

\* The store with readers, the memory tier and clearAll: nothing writes to
\* the durable stores.
NextStore ==
  \/ \E store \in CallStores, key \in Groups : IsExpired(store, key)
  \/ \E store \in CallStores, key \in Groups : Get(store, key)
  \/ ClearAll
  \/ \E key \in TokenKeys, value \in Values, expiry \in MemoryTtls :
       SetMemory(key, value, expiry)
  \/ \E key \in TokenKeys : GetMemory(key)
  \/ ClearMemoryExpired
  \/ \E c \in calls : MetaGetCompletes(c)
  \/ \E c \in calls : DataGetCompletes(c)
  \/ \E c \in calls : DataGetFails(c)
  \/ \E c \in calls : ClearCompletes(c)
  \/ CacheTick

\* clearExpired with readers and a writer.
NextSweep ==
  \/ \E store \in CallStores, key \in Groups, value \in Values, ttl \in Ttls :
       SetWithExpiry(store, key, value, ttl)
  \/ \E store \in CallStores, key \in Groups : IsExpired(store, key)
  \/ \E store \in CallStores, key \in Groups : Get(store, key)
  \/ ClearExpired
  \/ \E c \in calls : MetaGetCompletes(c)
  \/ \E c \in calls : DataGetCompletes(c)
  \/ \E c \in calls : DataPutCompletes(c)
  \/ \E c \in calls : MetaPutCompletes(c)
  \/ \E c \in calls : KeysArrive(c)
  \/ \E c \in calls : ExpiredMetaArrives(c)
  \/ \E c \in calls : ExpiredDataDeleted(c)
  \/ \E c \in calls : ExpiredMetaDeleted(c)
  \/ CacheTick

\* The facade on its cache and its dispatcher.
NextFacade ==
  \/ \E group \in Groups : GetSymbols(group)
  \/ \E key \in MemKeys : GetCurrentTokenData(key)
  \/ \E key \in Groups, token \in MemKeys : UpdateChart(key, token)
  \/ \E c \in calls : MetaGetCompletes(c)
  \/ \E c \in calls : DataGetCompletes(c)
  \/ \E c \in calls : FetchFails(c)
  \/ \E c \in calls, symbolsData \in Values : FetchSucceeds(c, symbolsData)
  \/ \E c \in calls : DataPutCompletes(c)
  \/ \E c \in calls : MetaPutCompletes(c)
  \/ \E c \in calls : TokenFetchFails(c)
  \/ \E c \in calls, tokenData \in Values : TokenFetchSucceeds(c, tokenData)
  \/ \E c \in calls : HistoricalGetCompletes(c)
  \/ \E c \in calls : HistoricalMetaCompletes(c)
  \/ \E c \in calls : HistoricalFetchFails(c)
  \/ \E c \in calls, historicalData \in Values :
       HistoricalFetchSucceeds(c, historicalData)
  \/ \E c \in calls : ChartUpdated(c)
  \/ CacheTick
  \/ SetConfigured

\* The facade while the application clears the caches.
NextRefresh ==
  \/ \E group \in Groups : GetSymbols(group)
  \/ \E key \in Groups, token \in MemKeys : UpdateChart(key, token)
  \/ ClearAll
  \/ \E c \in calls : MetaGetCompletes(c)
  \/ \E c \in calls : DataGetCompletes(c)
  \/ \E c \in calls : FetchFails(c)
  \/ \E c \in calls, symbolsData \in Values : FetchSucceeds(c, symbolsData)
  \/ \E c \in calls : DataPutCompletes(c)
  \/ \E c \in calls : MetaPutCompletes(c)
  \/ \E c \in calls : ClearCompletes(c)
  \/ \E c \in calls : TokenFetchFails(c)
  \/ \E c \in calls, tokenData \in Values : TokenFetchSucceeds(c, tokenData)
  \/ \E c \in calls : HistoricalGetCompletes(c)
  \/ \E c \in calls : HistoricalMetaCompletes(c)
  \/ \E c \in calls : HistoricalFetchFails(c)
  \/ \E c \in calls, historicalData \in Values :
       HistoricalFetchSucceeds(c, historicalData)
  \/ \E c \in calls : ChartUpdated(c)
  \/ SetConfigured

\* C6: a getSymbols request that finds the entry an earlier getSymbols
\* cached (started after that request returned, nothing else having written
\* or cleared the entry) and checks it within the 30-minute TTL returns the
\* cached data with no outbound call, the earlier request having made exactly
\* one; a request that checks it after the TTL has expired issues one new
\* outbound call (when the API is configured).  No request ever issues more
\* than one.
C6_SecondRequestServedFromCache ==
  /\ \A c \in calls : c.op = "getSymbols" =>
       c.outbound = (IF c.pc \in {"fetch", "putData", "putMeta"} THEN 1 ELSE 0)
  /\ lastCall.op = "getSymbols" => lastCall.outbound <= 1
  /\ \A w \in lastCall.basis :
       (lastCall.op = "getSymbols" /\ w.by = "getSymbols") =>
         /\ w.outbound = 1
         /\ w.ttl = SYMBOLS_EXPIRY
         /\ IF lastCall.checkedAt <= w.metaAt + SYMBOLS_EXPIRY
            THEN /\ lastCall.outbound = 0
                 /\ lastCall.status = "resolved"
                 /\ lastCall.value = {w.value}
            ELSE lastCall.configured => lastCall.outbound = 1

\* A second request, made later but within the TTL, was served from the cache.
C6_Witness ==
  /\ lastCall.op = "getSymbols"
  /\ lastCall.outbound = 0
  /\ \E w \in lastCall.basis :
       /\ w.by = "getSymbols"
       /\ lastCall.value = {w.value}
       /\ lastCall.checkedAt > w.metaAt
       /\ lastCall.checkedAt <= w.metaAt + SYMBOLS_EXPIRY

\* C8: after a completed setWithExpiry(store, key, value, ttl), nothing else
\* having written or cleared the entry, an isExpired that answers before ttl
\* has elapsed since the entry's timestamp answers false, and a get returns
\* value.
C8_FreshEntryIsReadBack ==
  \A w \in lastCall.basis :
    /\ (lastCall.op = "isExpired" /\ lastCall.checkedAt - w.metaAt < w.ttl)
         => lastCall.bool = FALSE
    /\ lastCall.op = "get" => lastCall.value = {w.value}

\* isExpired answered false some time after the write, within the ttl.
C8_Witness ==
  /\ lastCall.op = "isExpired"
  /\ lastCall.bool = FALSE
  /\ \E w \in lastCall.basis :
       /\ w.by = "setWithExpiry"
       /\ lastCall.checkedAt > w.metaAt
       /\ lastCall.checkedAt - w.metaAt < w.ttl

\* C9 (as claimed): isExpired answers true whenever ttl or more has elapsed
\* since setWithExpiry wrote the entry, also when exactly ttl has elapsed.
C9_ExpiredFromTtlOn ==
  \A w \in lastCall.basis :
    (lastCall.op = "isExpired" /\ lastCall.checkedAt - w.metaAt >= w.ttl)
      => lastCall.bool = TRUE

\* C9 (amended): isExpired answers true exactly when more than ttl has
\* elapsed since setWithExpiry wrote the entry's metadata record; when
\* exactly ttl has elapsed it still answers false.
C9_ExpiredOnlyAfterTtl ==
  \A w \in lastCall.basis :
    lastCall.op = "isExpired" =>
      (lastCall.bool <=> lastCall.checkedAt > w.metaAt + w.ttl)

\* isExpired answered false exactly ttl after the entry was written.
C9_Witness ==
  /\ lastCall.op = "isExpired"
  /\ lastCall.bool = FALSE
  /\ \E w \in lastCall.basis : lastCall.checkedAt = w.metaAt + w.ttl

\* C21: a clearExpired that ran with no other call under way from its start
\* to its return has removed every entry whose metadata had expired when it
\* started and none whose metadata has not expired when it returns, data and
\* metadata record together; the entries it kept are unchanged, and it
\* returns the number of entries it removed.
C21_SweepRemovesExactlyExpired ==
  \A b \in lastCall.basis :
    (lastCall.op = "clearExpired" /\ nCalls = b.id) =>
      /\ DOMAIN meta \subseteq DOMAIN b.meta
      /\ lastCall.cleared = Cardinality(DOMAIN b.meta \ DOMAIN meta)
      /\ \A k \in DOMAIN b.meta :
           LET metadata == b.meta[k]
               was == Lookup(b.data[metadata.store], metadata.key)
               is == Lookup(data[metadata.store], metadata.key)
           IN /\ metadata.expiry < b.at => k \notin DOMAIN meta
              /\ ~(metadata.expiry < now) => k \in DOMAIN meta
              /\ k \in DOMAIN meta => meta[k] = metadata /\ is = was
              /\ k \notin DOMAIN meta => is = {}

\* A clearExpired running alone removed one entry and kept the other.
C21_Witness ==
  /\ lastCall.op = "clearExpired"
  /\ lastCall.cleared = 1
  /\ \E b \in lastCall.basis : nCalls = b.id /\ Cardinality(DOMAIN b.meta) = 2
  /\ Cardinality(DOMAIN meta) = 1

\* C22 (as claimed): get never raises, whatever becomes of the read.
C22_GetNeverRaises ==
  lastCall.op = "get" => lastCall.status = "resolved"

\* C23: when clearAll returns, no durable write having been made meanwhile,
\* get finds nothing for any key of the stores symbols, tokenCache and
\* historical, isExpired is true for every (store, key), and getMemory finds
\* nothing for any key.
C23_ClearAllLeavesNothing ==
  lastCall.op = "clearAll" =>
    /\ \A store \in DataStores, key \in Groups :
         /\ Lookup(data[store], key) = {}
         /\ data[store] = EmptyStore
         /\ isExpired(Lookup(meta, MetaKey(store, key)), now)
    /\ \A key \in TokenKeys : getMemory(CState, key, now).result = {}
    /\ memoryCache = EmptyStore

\* clearAll has returned; when it began the store held a persisted entry that
\* would still be unexpired now, and another call was made meanwhile.
C23_Witness ==
  /\ lastCall.op = "clearAll"
  /\ \E b \in lastCall.basis :
       \E k \in DOMAIN b.meta :
         /\ ~isExpired({b.meta[k]}, now)
         /\ b.data[b.meta[k].store] # EmptyStore
  /\ nCalls = 2
  /\ meta = EmptyStore

\* C24: getMemory(key) returns the value of the entry of key while now is
\* not past its expiry, leaving the memory cache as it is; otherwise it
\* returns nothing and the memory cache holds no entry for key afterwards,
\* the other entries being unchanged.  setMemory leaves an entry that
\* expires its ttl later.
C24_MemoryReadNeverStale ==
  [][/\ lastCall'.op = "getMemory" =>
          LET key == lastCall'.key
              cached == Lookup(memoryCache, key)
          IN IF cached # {} /\ now <= The(cached).expiry
             THEN /\ lastCall'.value = {The(cached).data}
                  /\ memoryCache' = memoryCache
             ELSE /\ lastCall'.value = {}
                  /\ key \notin DOMAIN memoryCache'
                  /\ \A k \in DOMAIN memoryCache \ {key} :
                       Lookup(memoryCache', k) = {memoryCache[k]}
     /\ lastCall'.op = "setMemory" =>
          /\ lastCall'.key \in DOMAIN memoryCache'
          /\ memoryCache'[lastCall'.key].data \in Values
          /\ memoryCache'[lastCall'.key].expiry - now \in MemoryTtls]_vars

\* getMemory returned the value at the very instant of its expiry.
C24_Witness ==
  /\ lastCall.op = "getMemory"
  /\ lastCall.value # {}
  /\ lastCall.key \in DOMAIN memoryCache
  /\ memoryCache[lastCall.key].expiry = now

\* C29 (as claimed): no read issued while clearExpired runs finds the
\* metadata record of an entry whose data is already deleted.
C29_NoHalfDeletedPair ==
  [][\A c \in calls' \ calls :
       (c.op = "isExpired" /\ c.seenMeta # {}) => c.key \in DOMAIN data[c.store]]_vars

\* C30 (as claimed): clearExpired never deletes the data of an entry that a
\* setWithExpiry is writing or has written and whose new metadata has not
\* expired.
C30_SweepSparesFreshEntry ==
  [][\A c \in calls' \ calls :
       c.pc = "expired.deleteData" =>
         LET metadata == The(c.seenMeta) IN
         \A w \in clean[<<metadata.store, metadata.key>>] :
           w.metaAt # 0 /\ now > w.metaAt + w.ttl]_vars

Fetching == {c \in calls : c.pc \in {"fetch", "fetchToken", "hist.fetch"}}

\* C32 (as claimed): every outbound request of the facade is made by a task
\* the dispatcher has started, and at most MAX_CONCURRENT_REQUESTS of them
\* are in flight.
C32_FetchesGoThroughDispatcher ==
  /\ \A c \in Fetching : c.task \in Running
  /\ Cardinality(Fetching) <= MAX_CONCURRENT_REQUESTS

\* C34: getSymbols and updateChart never take an absent value for cached
\* data.  A getSymbols whose read finds no data, whatever the metadata said,
\* and an updateChart whose read finds none go on to the fetch (which throws
\* at once when the API is not configured); getSymbols never returns nothing,
\* and the chart is never drawn without data.
C34_AbsentDataIsAMiss ==
  /\ [](/\ (lastCall.op = "getSymbols" /\ lastCall.status = "resolved")
            => lastCall.value # {}
        /\ \A c \in calls : c.pc = "chart" => c.value # "")
  /\ [][\A c \in calls \ calls' :
          (\/ c.op = "getSymbols" /\ c.pc = "getData" /\ c.seenData = {}
           \/ c.op = "updateChart" /\ c.pc = "hist.get" /\ c.seenData = {})
            => IF apiConfigured
               THEN \E f \in calls' \ calls :
                      /\ f.id = c.id
                      /\ f.pc \in {"fetch", "hist.fetch"}
                      /\ f.outbound = c.outbound + 1
               ELSE lastCall'.op = c.op /\ lastCall'.fetchFailed]_vars

\* A getSymbols is fetching although the metadata it read was unexpired when
\* it tested it: the data entry was missing.
C34_Witness ==
  \E c \in calls :
    /\ c.op = "getSymbols"
    /\ c.pc = "fetch"
    /\ c.seenMeta # {}
    /\ ~isExpired(c.seenMeta, c.checkedAt)
    /\ c.seenData = {}

\* C35 (as claimed): two overlapping requests of the facade for the same
\* key make one outbound call between them.
C35_OverlappingRequestsShareFetch ==
  \A c1, c2 \in calls :
    (/\ c1 # c2
     /\ c1.op = c2.op
     /\ c1.op \in {"getSymbols", "getCurrentTokenData"}
     /\ c1.key = c2.key /\ c1.token = c2.token)
      => c1.outbound + c2.outbound <= 1

\* C12: the step in which a fetch of getSymbols, getCurrentTokenData or
\* updateChart fails changes no durable store and adds or changes no entry
\* of the memory cache (the lookup before the fetch may drop an expired
\* one); and a call waiting for its first fetch has written no entry.
C12_FailedFetchWritesNothing ==
  /\ [](\A c \in calls :
          c.pc \in {"fetch", "hist.fetch"}
            => \A s \in Slots : \A r \in clean[s] : r.id # c.id)
  /\ [][lastCall'.fetchFailed =>
         /\ data' = data
         /\ meta' = meta
         /\ \A k \in DOMAIN memoryCache' :
              k \in DOMAIN memoryCache /\ memoryCache'[k] = memoryCache[k]]_vars

\* The request of getCurrentTokenData went out and failed; no entry is
\* cached for the token.
C12_Witness ==
  /\ lastCall.fetchFailed
  /\ lastCall.op = "getCurrentTokenData"
  /\ lastCall.outbound = 1
  /\ memoryCache = EmptyStore

\* C13 (as claimed): getSymbols and getCurrentTokenData reject when their
\* fetch fails.
C13_FailedFetchRejects ==
  (lastCall.fetchFailed /\ lastCall.op \in {"getSymbols", "getCurrentTokenData"})
    => lastCall.status = "rejected"

----------------------------------------------------------------------------
(* Specifications: each runs one component, the others stay as constructed *)

Init == InitQueueVars /\ InitStreamVars /\ InitCacheVars /\ InitClassifierVars

\* The classifier applied to each failed response.
InitClassifier ==
  InitQueueVars /\ InitStreamVars /\ InitCacheVars /\ InitResponses

SpecClassifier == InitClassifier /\ [][AnalyzeError]_vars

SpecQueue == Init /\ [][NextQueue]_vars

\* Every started operation settles, and the microtask of a settled task runs.
FairSpecQueue ==
  /\ SpecQueue
  /\ WF_vars(\E i \in Ops, result \in {"ok", "err"} : Settle(i, result))
  /\ WF_vars(\E i \in Ops : TaskFinally(i))

SpecStream == Init /\ [][NextStream]_vars

SpecWatch == Init /\ [][NextWatch]_vars

\* The clock runs, the interval callback is called when the session is
\* silent, and every setTimeout callback is called: the reconnect of the
\* watchdog, and the retries, of which time and again none is pending or
\* one runs. This is the weak fairness of RetryFires with RetryPending
\* written out as what enables it.
FairSpecWatch ==
  /\ SpecWatch
  /\ WF_vars(Tick)
  /\ WF_vars(CheckConnectionHealth)
  /\ WF_vars(HealthTimerFires)
  /\ ([]<>~RetryPending \/ []<><<RetryFires>>_vars)

SpecCache == Init /\ [][NextCache]_vars

SpecFacade == Init /\ [][NextFacade]_vars

InitPersisted ==
  InitQueueVars /\ InitStreamVars /\ InitPersistedVars /\ InitClassifierVars

SpecRefresh == InitPersisted /\ [][NextRefresh]_vars

SpecStore == InitPersisted /\ [][NextStore]_vars

SpecSweep == InitPersisted /\ [][NextSweep]_vars
====
